---- MODULE Spec2Model ----
(***************************************************************************)
(* A model of TPAW (Toptranslation Python API Wrapper): the rate-limited   *)
(* dispatcher of tpaw/handlers.py, the request builder of                  *)
(* tpaw/internal.py, and the configuration, request pipeline and facade    *)
(* of tpaw/__init__.py.                                                    *)
(*                                                                         *)
(* Time is fixed-point: one tick is 1/TicksPerSec of a second, so a float  *)
(* number of seconds such as 0.5 is the integer TicksPerSec \div 2.        *)
(***************************************************************************)
EXTENDS Integers, Sequences, FiniteSets, TLC

VARIABLES
    \* ---- rate-limited dispatcher (handlers.py) ----
    clock,          \* the reading of timer(), in ticks
    rl_lock,        \* DefaultHandler.rl_lock: 0 when free, else the holder
    last_call,      \* DefaultHandler.last_call: key -> [lock, prev]
    api_request_delay, \* per client: Config.api_request_delay, in ticks
    pc,             \* per thread: the line of `wrapped` it is at
    client,         \* per thread: the client whose handler it called
    rate_delay,     \* per thread: the _rate_delay argument, in ticks
    now,            \* per thread: the local `now`
    wake,           \* per thread: the clock reading at which sleep may return
    admitted,       \* the calls admitted so far, in order
    ncalls,         \* how many calls were started
    \* ---- request builder (internal.py) ----
    p_args,         \* the caller's arguments of _prepare_request (objects)
    prepared,       \* the results of the calls made with them, in order
    \* ---- configuration (Config.__init__) ----
    cfg_src,        \* the sources: site name, CONFIG file, environment, kwargs
    config,         \* the Config object, once constructed
    \* ---- client: BaseTT and the facade mixins (__init__.py) ----
    c_handler,      \* self.handler: "DefaultHandler" or a caller's handler
    c_params,       \* self.params of AuthenticatedTT
    c_cookies,      \* self.http.cookies
    c_pc,           \* "ready", "dispatch" (inside handler.request), "done"
    c_call,         \* the public call in progress
    c_dispatch,     \* the arguments of handler.request
    c_attempts,     \* the dispatches made for the call in progress
    c_outcome,      \* what handler.request returned or raised
    c_inner,        \* what _request returned or raised
    c_result,       \* what the public call returned or raised
    c_ncalls        \* the public calls made so far

rlvars == <<clock, rl_lock, last_call, api_request_delay, pc, client,
            rate_delay, now, wake, admitted, ncalls>>

prepvars == <<p_args, prepared>>

cfgvars == <<cfg_src, config>>

clientvars == <<c_handler, c_params, c_cookies, c_pc,
                c_call, c_dispatch, c_attempts, c_outcome, c_inner,
                c_result, c_ncalls>>

vars == <<rlvars, prepvars, cfgvars, clientvars>>

-----------------------------------------------------------------------------
(* Bounds of the model *)

TicksPerSec == 2
MaxDelayTicks == 3
MaxStart == 1
MaxTime == 4
MaxCalls == 3
MaxPrepares == 2
MaxClientCalls == 2

Threads == {1, 2}
Clients == {"a", "b"}

-----------------------------------------------------------------------------
(* Python values: None, True, dict, str, tuple and list, as records *)

EmptyMap == <<>>

NoneV == [kind |-> "None", items |-> EmptyMap, text |-> ""]
TrueV == [kind |-> "True", items |-> EmptyMap, text |-> ""]
ListV == [kind |-> "list", items |-> EmptyMap, text |-> ""]
DictV(m) == [kind |-> "dict", items |-> m, text |-> ""]
StrV(s) == [kind |-> "str", items |-> EmptyMap, text |-> s]
TupleV(s) == [kind |-> "tuple", items |-> EmptyMap, text |-> s]

\* bool(v): None, empty containers and the empty string are false
Truthy(v) ==
    CASE v.kind = "None" -> FALSE
      [] v.kind = "True" -> TRUE
      [] v.kind = "dict" -> DOMAIN v.items # {}
      [] v.kind = "list" -> FALSE
      [] v.kind = "str" -> v.text # ""
      [] v.kind = "tuple" -> v.text # ""

\* isinstance(v, dict)
IsDict(v) == v.kind = "dict"

\* dict.setdefault(k, x) and dict.update(n), as the resulting mapping
MapSetDefault(m, k, x) == IF k \in DOMAIN m THEN m ELSE (k :> x) @@ m
MapUpdate(m, n) == n @@ m

\* the state of the request-builder variables while they are not in use
NoArgs == [url |-> <<>>, params |-> NoneV, data |-> NoneV, auth |-> NoneV,
           files |-> NoneV, method |-> NoneV, headers |-> EmptyMap,
           cookies |-> EmptyMap, use_oauth |-> FALSE]

\* no descriptor: the call raised before building one
NoRequest == [method |-> "", url |-> <<>>, headers |-> EmptyMap,
              params |-> NoneV, auth |-> NoneV, cookies |-> EmptyMap,
              data |-> NoneV, files |-> NoneV]

-----------------------------------------------------------------------------
(* What calls return and raise *)

\* a parsed JSON document: an object with fields, an array of items, or
\* text that is no JSON
JsonObject(f) == [kind |-> "object", fields |-> f, items |-> <<>>]
JsonArray(xs) == [kind |-> "array", fields |-> EmptyMap, items |-> xs]
JsonInvalid == [kind |-> "invalid", fields |-> EmptyMap, items |-> <<>>]

\* the values the request methods produce: None, a text, a parsed JSON
\* document, or the items a generator yields
NoValue == [type |-> "None", text |-> <<>>, json |-> JsonInvalid,
            items |-> <<>>]
TextValue(t) == [NoValue EXCEPT !.type = "text", !.text = t]
JsonValue(j) == [NoValue EXCEPT !.type = "json", !.json = j]
ItemsValue(xs) == [NoValue EXCEPT !.type = "items", !.items = xs]

\* how a call ended: it returned a value, or raised an exception of class
\* exc (an HTTPException carries the status code of its raw response)
Pending == [kind |-> "pending", exc |-> "", status |-> 0, value |-> NoValue]
Returned(v) == [kind |-> "returned", exc |-> "", status |-> 0, value |-> v]
Raised(e, st) == [kind |-> "raised", exc |-> e, status |-> st,
                  value |-> NoValue]

\* the class hierarchy of errors.py, and of the built-in and transport
\* exceptions the pipeline lets through
ExcParent ==
    [TPAWException |-> "Exception", ClientException |-> "TPAWException",
     LoginRequired |-> "ClientException",
     OAuthAppRequired |-> "ClientException",
     HTTPException |-> "TPAWException", Forbidden |-> "HTTPException",
     NotFound |-> "HTTPException", OAuthException |-> "TPAWException",
     KeyError |-> "LookupError", LookupError |-> "Exception",
     TypeError |-> "Exception", ValueError |-> "Exception",
     AttributeError |-> "Exception", ConnectionError |-> "Exception"]

\* issubclass(e, cls)
RECURSIVE IsA(_, _)
IsA(e, cls) ==
    \/ e = cls
    \/ e \in DOMAIN ExcParent /\ IsA(ExcParent[e], cls)

\* the client variables while no call is in progress
NoCall == [api |-> "", name |-> "", via |-> "", url |-> <<>>,
           retry_on_error |-> FALSE]
NoDispatch == [request |-> NoRequest, proxies |-> EmptyMap, timeout |-> 0,
               rate_delay |-> 0]
NoOutcome == [kind |-> "none", exc |-> "", status |-> 0, text |-> <<>>,
              cookies |-> EmptyMap]

\* the client variables before a client is constructed
ClientIdle ==
    /\ c_handler = "DefaultHandler"
    /\ c_params = EmptyMap
    /\ c_cookies = EmptyMap
    /\ c_pc = "ready"
    /\ c_call = NoCall
    /\ c_dispatch = NoDispatch
    /\ c_attempts = 0
    /\ c_outcome = NoOutcome
    /\ c_inner = Pending
    /\ c_result = Pending
    /\ c_ncalls = 0

-----------------------------------------------------------------------------
(* Configuration: Config.__init__ *)

\* the value Python's None stands for in a mapping of strings
None == "None"

\* x or y, on strings and None
Or(x, y) == IF x # None /\ x # "" THEN x ELSE y

\* dict.get(k): the value, or None when the key is absent
MapGet(m, k) == IF k \in DOMAIN m THEN m[k] ELSE None

\* the configuration variables before a Config is constructed
NoSources == [site |-> None, file |-> EmptyMap, env |-> EmptyMap,
              kwargs |-> EmptyMap]
NoConfig == [api_url |-> "", api_version |-> "", document_url |-> "",
             api_request_delay |-> 0, cache_timeout |-> 0,
             log_requests |-> 0, timeout |-> 0, access_token |-> None,
             http_proxy |-> None, https_proxy |-> None]

\* the settings a site's section of tpaw.ini has to hold; the numbers are
\* the values float() and int() read from it (seconds are in ticks)
BaseSection ==
    [api_domain |-> "api.example", api_version |-> "0",
     document_domain |-> "files.example",
     api_request_delay |-> TicksPerSec, cache_timeout |-> 0,
     log_requests |-> 0, timeout |-> 45 * TicksPerSec,
     access_token |-> "token"]

\* os.getenv(name)
GetEnv(env, name) == MapGet(env, name)

\* obj.get(key) or os.getenv(var) or None
ProxyOf(obj, env, key, var) ==
    Or(Or(MapGet(obj, key), GetEnv(env, var)), None)

\* Config.__init__(site_name, **kwargs), with CONFIG and os.environ
ConfigOf(src) ==
    LET obj == MapUpdate(src.file[Or(src.site, "toptranslation")],
                         src.kwargs)
    IN  [api_url |-> "https://" \o obj["api_domain"],
         api_version |-> "v" \o obj["api_version"],
         document_url |-> "https://" \o obj["document_domain"],
         api_request_delay |-> obj["api_request_delay"],
         cache_timeout |-> obj["cache_timeout"],
         log_requests |-> obj["log_requests"],
         timeout |-> obj["timeout"],
         access_token |-> Or(MapGet(obj, "access_token"), None),
         http_proxy |-> ProxyOf(obj, src.env, "http_proxy", "http_prox"),
         https_proxy |-> ProxyOf(obj, src.env, "https_proxy", "https_prox")]

\* a mapping that may or may not hold key k, with one of the values vs
Optional(k, vs) == {EmptyMap} \cup {k :> v : v \in vs}

FileProxy == {"", "http://file-proxy:3128"}
ArgProxy == {"", "http://arg-proxy:3128"}
EnvProxy == {"http://env-proxy:3128"}

\* CONFIG: the sections of tpaw.ini, by site name
FileChoices ==
    {[toptranslation |-> BaseSection @@ h @@ hs,
      staging |-> BaseSection @@ ("http_proxy" :> "http://staging:3128")] :
        h \in Optional("http_proxy", FileProxy),
        hs \in Optional("https_proxy", FileProxy)}
KwargChoices ==
    {h @@ hs : h \in Optional("http_proxy", ArgProxy),
               hs \in Optional("https_proxy", ArgProxy)}
EnvChoices ==
    {h @@ hs : h \in Optional("http_prox", EnvProxy),
               hs \in Optional("https_prox", EnvProxy)}

\* BaseTT.__init__: Config(site_name or 'toptranslation', **kwargs)
ConfigInit ==
    /\ config = NoConfig
    /\ config' = ConfigOf(cfg_src)
    /\ UNCHANGED <<rlvars, prepvars, cfg_src, clientvars>>

-----------------------------------------------------------------------------
(* Rate-limited dispatcher: handlers.py *)

\* float(obj['api_request_delay']): any non-negative number of seconds
DelayChoices == 0..MaxDelayTicks

\* int(x) on a non-negative float: truncation to whole seconds
IntOf(ticks) == (ticks \div TicksPerSec) * TicksPerSec

\* kwargs = {'_rate_delay': int(self.config.api_request_delay)}
RateDelayOf(c) == IntOf(api_request_delay[c])

\* [Lock(), 0]: the record setdefault creates for a new domain
NewRecord == [lock |-> 0, prev |-> 0]

InitRL ==
    /\ clock \in 0..MaxStart
    /\ rl_lock = 0
    /\ last_call = <<>>
    /\ api_request_delay \in [Clients -> DelayChoices]
    /\ pc = [t \in Threads |-> "idle"]
    /\ client = [t \in Threads |-> "none"]
    /\ rate_delay = [t \in Threads |-> 0]
    /\ now = [t \in Threads |-> 0]
    /\ wake = [t \in Threads |-> 0]
    /\ admitted = <<>>
    /\ ncalls = 0
    /\ p_args = NoArgs
    /\ prepared = <<>>
    /\ cfg_src = NoSources
    /\ config = NoConfig
    /\ ClientIdle

\* self.handler.request(request=..., proxies=..., timeout=..., **kwargs)
CallRequest(t) ==
    /\ pc[t] \in {"idle", "returned", "raised"}
    /\ ncalls < MaxCalls
    /\ \E c \in Clients :
          /\ client' = [client EXCEPT ![t] = c]
          /\ rate_delay' = [rate_delay EXCEPT ![t] = RateDelayOf(c)]
    /\ ncalls' = ncalls + 1
    /\ pc' = [pc EXCEPT ![t] = "L35"]
    /\ UNCHANGED <<clock, rl_lock, last_call, api_request_delay, now, wake,
                   admitted, prepvars, cfgvars, clientvars>>

\* cls.rl_lock.acquire()
AcquireRL(t) ==
    /\ pc[t] = "L35"
    /\ rl_lock = 0
    /\ rl_lock' = t
    /\ pc' = [pc EXCEPT ![t] = "L36"]
    /\ UNCHANGED <<clock, last_call, api_request_delay, client, rate_delay,
                   now, wake, admitted, ncalls, prepvars, cfgvars, clientvars>>

\* lock_last = cls.last_call.setdefault(0, [Lock(), 0])
SetDefault(t) ==
    /\ pc[t] = "L36"
    /\ last_call' = IF 1 \in DOMAIN last_call THEN last_call
                    ELSE <<NewRecord>>
    /\ pc' = [pc EXCEPT ![t] = "L37"]
    /\ UNCHANGED <<clock, rl_lock, api_request_delay, client, rate_delay,
                   now, wake, admitted, ncalls, prepvars, cfgvars, clientvars>>

\* with lock_last[0]:   (blocks until the domain lock is free)
AcquireDomain(t) ==
    /\ pc[t] = "L37"
    /\ last_call[1].lock = 0
    /\ last_call' = [last_call EXCEPT ![1].lock = t]
    /\ pc' = [pc EXCEPT ![t] = "L38"]
    /\ UNCHANGED <<clock, rl_lock, api_request_delay, client, rate_delay,
                   now, wake, admitted, ncalls, prepvars, cfgvars, clientvars>>

\* cls.rl_lock.release()
ReleaseRL(t) ==
    /\ pc[t] = "L38"
    /\ rl_lock' = 0
    /\ pc' = [pc EXCEPT ![t] = "L40"]
    /\ UNCHANGED <<clock, last_call, api_request_delay, client, rate_delay,
                   now, wake, admitted, ncalls, prepvars, cfgvars, clientvars>>

\* delay = lock_last[1] + _rate_delay - now
DelayOf(prev, rd, n) == prev + rd - n

\* now = timer(); delay = ...; if delay > 0: now += delay; time.sleep(delay)
ReadTimer(t) ==
    /\ pc[t] = "L40"
    /\ LET delay == DelayOf(last_call[1].prev, rate_delay[t], clock)
       IN  IF delay > 0
           THEN /\ now' = [now EXCEPT ![t] = clock + delay]
                /\ wake' = [wake EXCEPT ![t] = clock + delay]
                /\ pc' = [pc EXCEPT ![t] = "L44"]
           ELSE /\ now' = [now EXCEPT ![t] = clock]
                /\ wake' = wake
                /\ pc' = [pc EXCEPT ![t] = "L45"]
    /\ UNCHANGED <<clock, rl_lock, last_call, api_request_delay, client,
                   rate_delay, admitted, ncalls, prepvars, cfgvars, clientvars>>

\* time.sleep(delay) returns once at least `delay` has passed
Sleep(t) ==
    /\ pc[t] = "L44"
    /\ clock >= wake[t]
    /\ pc' = [pc EXCEPT ![t] = "L45"]
    /\ UNCHANGED <<clock, rl_lock, last_call, api_request_delay, client,
                   rate_delay, now, wake, admitted, ncalls, prepvars, cfgvars, clientvars>>

\* Stamp as it would be if the domain lock were released before the
\* network call (the `return` placed after the `with` block)
StampReleasingLock(t) ==
    /\ pc[t] = "L45"
    /\ last_call' = [last_call EXCEPT ![1].prev = now[t], ![1].lock = 0]
    /\ admitted' = Append(admitted,
                          [at |-> now[t],
                           d |-> api_request_delay[client[t]]])
    /\ pc' = [pc EXCEPT ![t] = "L46"]
    /\ UNCHANGED <<clock, rl_lock, api_request_delay, client, rate_delay,
                   now, wake, ncalls, prepvars, cfgvars, clientvars>>

\* lock_last[1] = now : the call is admitted; the network call comes next,
\* still inside the `with` block
Stamp(t) ==
    /\ pc[t] = "L45"
    /\ last_call' = [last_call EXCEPT ![1].prev = now[t]]
    /\ admitted' = Append(admitted,
                          [at |-> now[t],
                           d |-> api_request_delay[client[t]]])
    /\ pc' = [pc EXCEPT ![t] = "L46"]
    /\ UNCHANGED <<clock, rl_lock, api_request_delay, client, rate_delay,
                   now, wake, ncalls, prepvars, cfgvars, clientvars>>

\* return function(cls, **kwargs): self.http.send(...) returns a Response;
\* leaving the `with` block releases the domain lock
NetworkReturn(t) ==
    /\ pc[t] = "L46"
    /\ last_call' = [last_call EXCEPT ![1].lock = 0]
    /\ pc' = [pc EXCEPT ![t] = "returned"]
    /\ client' = [client EXCEPT ![t] = "none"]
    /\ rate_delay' = [rate_delay EXCEPT ![t] = 0]
    /\ now' = [now EXCEPT ![t] = 0]
    /\ wake' = [wake EXCEPT ![t] = 0]
    /\ UNCHANGED <<clock, rl_lock, api_request_delay, admitted, ncalls, prepvars, cfgvars, clientvars>>

\* NetworkRaise as it would be if the domain lock were taken with
\* acquire() and released with release() after the call, with no `with`
\* block: an exception leaves the lock held
NetworkRaiseKeepingLock(t) ==
    /\ pc[t] = "L46"
    /\ pc' = [pc EXCEPT ![t] = "raised"]
    /\ client' = [client EXCEPT ![t] = "none"]
    /\ rate_delay' = [rate_delay EXCEPT ![t] = 0]
    /\ now' = [now EXCEPT ![t] = 0]
    /\ wake' = [wake EXCEPT ![t] = 0]
    /\ UNCHANGED <<clock, rl_lock, last_call, api_request_delay, admitted, ncalls, prepvars, cfgvars, clientvars>>

\* self.http.send(...) raises a transport exception; the `with` block
\* releases the domain lock while the exception propagates
NetworkRaise(t) ==
    /\ pc[t] = "L46"
    /\ last_call' = [last_call EXCEPT ![1].lock = 0]
    /\ pc' = [pc EXCEPT ![t] = "raised"]
    /\ client' = [client EXCEPT ![t] = "none"]
    /\ rate_delay' = [rate_delay EXCEPT ![t] = 0]
    /\ now' = [now EXCEPT ![t] = 0]
    /\ wake' = [wake EXCEPT ![t] = 0]
    /\ UNCHANGED <<clock, rl_lock, api_request_delay, admitted, ncalls, prepvars, cfgvars, clientvars>>

\* the clock of timer() advances: up to MaxTime, and beyond it for as long
\* as a sleeping thread waits for its wake-up time
Tick ==
    /\ \/ clock < MaxTime
       \/ \E t \in Threads : pc[t] = "L44" /\ clock < wake[t]
    /\ clock' = clock + 1
    /\ UNCHANGED <<rl_lock, last_call, api_request_delay, pc, client,
                   rate_delay, now, wake, admitted, ncalls, prepvars, cfgvars, clientvars>>

NextRL ==
    \/ Tick
    \/ \E t \in Threads : CallRequest(t)
    \/ \E t \in Threads : AcquireRL(t)
    \/ \E t \in Threads : SetDefault(t)
    \/ \E t \in Threads : AcquireDomain(t)
    \/ \E t \in Threads : ReleaseRL(t)
    \/ \E t \in Threads : ReadTimer(t)
    \/ \E t \in Threads : Sleep(t)
    \/ \E t \in Threads : Stamp(t)
    \/ \E t \in Threads : NetworkReturn(t)
    \/ \E t \in Threads : NetworkRaise(t)

SpecRL == InitRL /\ [][NextRL]_vars

\* the next step of thread t inside DefaultHandler.request: the statement
\* its position names
StepInside(t) ==
    \/ AcquireRL(t)
    \/ SetDefault(t)
    \/ AcquireDomain(t)
    \/ ReleaseRL(t)
    \/ ReadTimer(t)
    \/ Sleep(t)
    \/ Stamp(t)
    \/ NetworkReturn(t)
    \/ NetworkRaise(t)

\* Scheduling: a thread that can take its next step eventually takes it
\* (a free mutex is eventually handed to a thread waiting for it, a sleep
\* ends once its time has come, the network call eventually returns or
\* raises), and time passes.  Nothing obliges a caller to start a call.
FairRL ==
    /\ WF_vars(Tick)
    /\ \A t \in Threads : WF_vars(StepInside(t))

SpecRLFair == SpecRL /\ FairRL

-----------------------------------------------------------------------------
(* Claims about the rate-limited dispatcher *)

\* every client is configured with the same per-request delay
UniformDelay == \A c1, c2 \in Clients :
                    api_request_delay[c1] = api_request_delay[c2]

\* C1: with one configured per-request delay d (fractional values
\* included) for all clients, the admission times of any two consecutively
\* admitted calls of the shared domain differ by at least d.  The admission
\* time of a call is the timestamp the dispatcher records for it.
C1_MinGapBetweenAdmissions ==
    UniformDelay =>
        \A i \in 2..Len(admitted) :
            admitted[i].at - admitted[i-1].at >= admitted[i].d

\* the threads inside the rate-limit sleep or the network call
InSleepOrCall == {t \in Threads : pc[t] \in {"L44", "L46"}}

\* C2: the network call runs while the per-domain mutex is held, so at most
\* one thread is inside the network call or the rate-limit sleep of the
\* domain at any time.
C2_CallsSerialized ==
    /\ Cardinality(InSleepOrCall) <= 1
    /\ \A t \in InSleepOrCall : last_call[1].lock = t

\* C2 witness: one thread is inside the network call while another one has
\* called and is blocked on the domain mutex.
C2_Witness ==
    \E t, u \in Threads :
        /\ t # u
        /\ pc[t] = "L46"
        /\ pc[u] = "L37"
        /\ Len(admitted) >= 2

-----------------------------------------------------------------------------
(* Request builder: internal.py *)

\* the rate-limiter variables while the dispatcher is not in use
RLIdle ==
    /\ clock = 0
    /\ rl_lock = 0
    /\ last_call = <<>>
    /\ api_request_delay = [c \in Clients |-> 0]
    /\ pc = [t \in Threads |-> "idle"]
    /\ client = [t \in Threads |-> "none"]
    /\ rate_delay = [t \in Threads |-> 0]
    /\ now = [t \in Threads |-> 0]
    /\ wake = [t \in Threads |-> 0]
    /\ admitted = <<>>
    /\ ncalls = 0

\* the inference as it would be if it looked at the body data alone
MethodOfIgnoringFiles(method, data, files) ==
    IF Truthy(method) THEN method.text
    ELSE IF Truthy(data) THEN "POST"
    ELSE "GET"

\* if method: pass / elif data or files: method = 'POST' / else: 'GET'
MethodOf(method, data, files) ==
    IF Truthy(method) THEN method.text
    ELSE IF Truthy(data) \/ Truthy(files) THEN "POST"
    ELSE "GET"

\* if data is True: data = {}
NormalizeData(data) == IF data.kind = "True" THEN DictV(EmptyMap) ELSE data

\* the body handling without the `if not auth` test
BodyOfAlwaysInject(data, auth) ==
    LET d == NormalizeData(data)
    IN  IF IsDict(d)
        THEN DictV(MapSetDefault(d.items, "api_type", "json"))
        ELSE d

\* if isinstance(data, dict): if not auth: data.setdefault('api_type','json')
BodyOf(data, auth) ==
    LET d == NormalizeData(data)
    IN  IF IsDict(d) /\ ~Truthy(auth)
        THEN DictV(MapSetDefault(d.items, "api_type", "json"))
        ELSE d

\* else: request.headers.setdefault('Content-Type', 'application/json')
HeadersOf(headers, data) ==
    IF IsDict(NormalizeData(data)) THEN headers
    ELSE MapSetDefault(headers, "Content-Type", "application/json")

\* _prepare_request without the early return of a GET request: the body
\* handling runs for every method
PrepareRequestWithoutEarlyReturn(a) ==
    IF a.use_oauth
    THEN [raised |-> "AttributeError", request |-> NoRequest,
          data_obj |-> a.data]
    ELSE LET headers == MapUpdate(EmptyMap, a.headers)
             method == MethodOf(a.method, a.data, a.files)
         IN  [raised |-> "",
              request |-> [method |-> method, url |-> a.url,
                           headers |-> HeadersOf(headers, a.data),
                           params |-> a.params, auth |-> a.auth,
                           cookies |-> a.cookies,
                           data |-> BodyOf(a.data, a.auth),
                           files |-> a.files],
              data_obj |-> IF IsDict(a.data) THEN BodyOf(a.data, a.auth)
                           ELSE a.data]

\* _prepare_request(session, url, params, data, auth, files, method):
\* the descriptor, the exception raised instead of it, and the caller's
\* data object as the call leaves it (setdefault updates it in place; the
\* True sentinel is replaced by a new dict the caller never sees).
\* a is the record of the arguments, with the session's headers, cookies
\* and _use_oauth flag.  The writes to sys.stderr are left out.
PrepareRequest(a) ==
    IF a.use_oauth
    THEN \* session.access_token, config.permalink_url, config.oauth_url:
         \* neither BaseTT nor Config defines them
         [raised |-> "AttributeError", request |-> NoRequest,
          data_obj |-> a.data]
    ELSE LET headers == MapUpdate(EmptyMap, a.headers)
             method == MethodOf(a.method, a.data, a.files)
             request == [method |-> method, url |-> a.url,
                         headers |-> headers, params |-> a.params,
                         auth |-> a.auth, cookies |-> a.cookies,
                         data |-> ListV, files |-> ListV]
         IN  IF method = "GET"
             THEN [raised |-> "", request |-> request, data_obj |-> a.data]
             ELSE [raised |-> "",
                   request |-> [request EXCEPT
                                  !.headers = HeadersOf(headers, a.data),
                                  !.data = BodyOf(a.data, a.auth),
                                  !.files = a.files],
                   data_obj |-> IF IsDict(a.data)
                                THEN BodyOf(a.data, a.auth)
                                ELSE a.data]

DataChoices == {NoneV, TrueV, DictV(EmptyMap), DictV("name" :> "Doc1"),
                DictV("api_type" :> "xml"), StrV(""), StrV("raw")}
FilesChoices == {NoneV, DictV("file" :> "handle")}
AuthChoices == {NoneV, TupleV("user:secret")}
ParamsChoices == {NoneV, DictV("page" :> "1")}
MethodChoices == {NoneV, StrV("GET"), StrV("POST"), StrV("PATCH")}
\* self.http.headers: the User-Agent set by BaseTT.__init__, and whatever
\* else the caller stored in the session's headers
HeaderChoices == {"User-Agent" :> "app TPAW/0.0.1",
                  ("User-Agent" :> "app TPAW/0.0.1")
                      @@ ("Content-Type" :> "text/xml")}

InitPrep ==
    /\ RLIdle
    /\ p_args \in [url : {<<"https://api.example", "v0", "orders">>}, params : ParamsChoices,
                    data : DataChoices, auth : AuthChoices,
                    files : FilesChoices, method : MethodChoices,
                    headers : HeaderChoices, cookies : {EmptyMap},
                    use_oauth : BOOLEAN]
    /\ prepared = <<>>
    /\ cfg_src = NoSources
    /\ config = NoConfig
    /\ ClientIdle

\* one call of _prepare_request with the caller's objects
Prepare ==
    /\ Len(prepared) < MaxPrepares
    /\ LET r == PrepareRequest(p_args)
       IN  /\ prepared' = Append(prepared, [raised |-> r.raised,
                                            request |-> r.request,
                                            given |-> p_args])
           /\ p_args' = [p_args EXCEPT !.data = r.data_obj]
    /\ UNCHANGED <<rlvars, cfgvars, clientvars>>

NextPrep == Prepare

SpecPrep == InitPrep /\ [][NextPrep]_vars

-----------------------------------------------------------------------------
(* Endpoint lookup: Config.__getitem__, Config.document_store_url *)

\* Config.API_PATHS; a URL is the sequence of its path segments
API_PATHS ==
    [accept_quote |-> <<"quotes", "{identifier}", "accept">>,
     add_document |-> <<"orders", "{identifier}", "documents">>,
     create_cost_center |-> <<"cost_centers">>,
     create_order |-> <<"orders">>,
     document_url |-> <<"documents", "{identifier}", "download">>,
     download_document |-> <<"documents", "{identifier}", "download">>,
     get_locales |-> <<"locales">>,
     get_user |-> <<"users", "me">>,
     invoice_url |-> <<"invoices", "{identifier}", "download">>,
     list_cost_centers |-> <<"cost_centers">>,
     list_documents |-> <<"orders", "{identifier}", "documents">>,
     list_invoices |-> <<"orders", "{identifier}", "invoices">>,
     list_orders |-> <<"orders">>,
     list_quotes |-> <<"orders", "{identifier}", "quotes">>,
     quote_url |-> <<"quotes", "{identifier}", "download">>,
     rate_order |-> <<"orders", "{identifier}", "ratings">>,
     reference_document_url |->
         <<"reference_documents", "{identifier}", "download">>,
     reject_quote |-> <<"quotes", "{identifier}", "reject">>,
     request_order |-> <<"orders", "{identifier}", "request">>,
     show_cost_center |-> <<"cost_centers", "{identifier}">>,
     show_order |-> <<"orders", "{identifier}">>,
     update_order |-> <<"orders", "{identifier}">>,
     upload_document |-> <<"documents">>,
     upload_token |-> <<"upload_tokens">>]

\* self.API_PATHS[key]: a dict lookup, which raises KeyError
PathOf(key) ==
    IF key \in DOMAIN API_PATHS
    THEN [raised |-> "", path |-> API_PATHS[key]]
    ELSE [raised |-> "KeyError", path |-> <<>>]

\* urljoin(self.api_url, self.api_version + '/' + self.API_PATHS[key])
GetItem(cfg, key) ==
    LET p == PathOf(key)
    IN  IF p.raised # "" THEN [raised |-> p.raised, url |-> <<>>]
        ELSE [raised |-> "",
              url |-> <<cfg.api_url, cfg.api_version>> \o p.path]

\* urljoin(self.document_url, self.API_PATHS[key])
DocumentStoreUrl(cfg, key) ==
    LET p == PathOf(key)
    IN  IF p.raised # "" THEN [raised |-> p.raised, url |-> <<>>]
        ELSE [raised |-> "", url |-> <<cfg.document_url>> \o p.path]

\* url.format(identifier=identifier)
Format(url, identifier) ==
    [i \in 1..Len(url) |->
        IF url[i] = "{identifier}" THEN identifier ELSE url[i]]

-----------------------------------------------------------------------------
(* Response decoding: BaseTT._request, request, request_json, get_content *)

\* BaseTT.RETRY_CODES
RETRY_CODES == {502, 503, 504}

\* html_entities.name2codepoint (the names the model's texts use)
Name2Codepoint == [amp |-> 38, lt |-> 60, gt |-> 62, quot |-> 34]

\* A text is a sequence of pieces: "&" and ";" stand alone, every other
\* piece is a run of characters holding neither.
\* The groups of the non-overlapping matches of '&([^;]+);' from piece i on
RECURSIVE Matches(_, _)
Matches(text, i) ==
    IF i > Len(text) THEN <<>>
    ELSE LET ends == {j \in (i + 2)..Len(text) :
                         /\ text[j] = ";"
                         /\ \A k \in (i + 1)..(j - 1) : text[k] # ";"}
         IN  IF text[i] = "&" /\ ends # {}
             THEN LET j == CHOOSE j \in ends : TRUE
                  IN  <<SubSeq(text, i + 1, j - 1)>> \o Matches(text, j + 1)
             ELSE Matches(text, i + 1)

\* decode(match): html_entities.name2codepoint[match.group(1)], an int, or
\* KeyError for a name the table does not hold
KnownEntity(group) == Len(group) = 1 /\ group[1] \in DOMAIN Name2Codepoint

\* re.sub('&([^;]+);', decode, response.text): the text when nothing
\* matches; KeyError from decode at the first unknown name; else TypeError,
\* as decode returns an int where re.sub needs a string
Decode(text) ==
    LET ms == Matches(text, 1)
    IN  IF ms = <<>> THEN Returned(TextValue(text))
        ELSE IF \E i \in 1..Len(ms) : ~KnownEntity(ms[i])
        THEN Raised("KeyError", 0)
        ELSE Raised("TypeError", 0)

\* the response bodies of the model
BodyOrders == <<"{\"data\": [{\"id\": 1}, {\"id\": 2}]}">>
BodyBare == <<"{\"id\": 1}">>
BodyArray == <<"[{\"id\": 1}]">>
BodyHtml == <<"<html>Bad Gateway</html>">>
BodyAmp == <<"{\"data\": [{\"id\": \"a ", "&", "amp", ";", " b\"}]}">>
BodyNumeric == <<"{\"data\": [{\"id\": \"", "&", "#65", ";", "\"}]}">>

\* json.loads(text), on the bodies of the model; an item {"id": x} is the
\* record [id |-> x]
JsonLoads(text) ==
    CASE text = BodyOrders ->
            JsonObject("data" :> <<[id |-> "1"], [id |-> "2"]>>)
      [] text = BodyBare -> JsonObject("id" :> <<"1">>)
      [] text = BodyArray -> JsonArray(<<[id |-> "1"]>>)
      [] text = BodyAmp -> JsonObject("data" :> <<[id |-> "a &amp; b"]>>)
      [] text = BodyNumeric -> JsonObject("data" :> <<[id |-> "&#65;"]>>)
      [] OTHER -> JsonInvalid

\* _request, from the outcome of self.handler.request on: swallowing every
\* HTTPException
InnerOfSwallowingAll(outcome) ==
    CASE outcome.kind = "response" -> Decode(outcome.text)
      [] outcome.kind = "http_exception" -> Returned(NoValue)
      [] outcome.kind = "transport" -> Raised(outcome.exc, 0)

\* _request, from the outcome of self.handler.request on: the decoded text
\* of a response; for an HTTPException, re-raise unless the status code is
\* in RETRY_CODES, and then fall off the end (return None); any other
\* exception propagates
InnerOf(outcome) ==
    CASE outcome.kind = "response" -> Decode(outcome.text)
      [] outcome.kind = "http_exception" ->
            IF outcome.status \notin RETRY_CODES
            THEN Raised(outcome.exc, outcome.status)
            ELSE Returned(NoValue)
      [] outcome.kind = "transport" -> Raised(outcome.exc, 0)

\* request_json: data = json.loads(response); return data
\* (self._request_url, which is set and deleted around json.loads and
\* read nowhere, is left out)
RequestJson(inner) ==
    IF inner.kind = "raised" THEN inner
    ELSE IF inner.value.type = "None" THEN Raised("TypeError", 0)
    ELSE LET j == JsonLoads(inner.value.text)
         IN  IF j.kind = "invalid" THEN Raised("ValueError", 0)
             ELSE Returned(JsonValue(j))

\* iterating a JSON value: the items of an array, the keys of an object
IterOf(j) ==
    IF j.kind = "array" THEN j.items
    ELSE LET keys == DOMAIN j.fields
             ordered == CHOOSE q \in [1..Cardinality(keys) -> keys] :
                            \A a, b \in 1..Cardinality(keys) :
                                a # b => q[a] # q[b]
         IN  ordered

\* get_content, consumed to its end: data = self.request_json(...);
\* root = data.get(root_field, data); for thing in root: yield thing
GetContent(inner) ==
    LET r == RequestJson(inner)
    IN  IF r.kind = "raised" THEN r
        ELSE IF r.value.json.kind # "object"
        THEN Raised("AttributeError", 0)
        ELSE IF "data" \in DOMAIN r.value.json.fields
        THEN Returned(ItemsValue(r.value.json.fields["data"]))
        ELSE Returned(ItemsValue(IterOf(r.value.json)))

\* the public methods that hand back what _request gave them
RawApis == {"_request", "request"}

\* what the public method `api` makes of the result of _request
ResultOf(api, inner) ==
    CASE api \in RawApis -> inner
      [] api = "get_locales" -> GetContent(inner)
      [] OTHER -> RequestJson(inner)

-----------------------------------------------------------------------------
(* The client: BaseTT.__init__, _request and the facade mixins *)

\* the sources the client of the model is constructed from
ClientSources ==
    [site |-> None,
     file |-> [toptranslation |-> BaseSection, staging |-> BaseSection],
     env |-> EmptyMap, kwargs |-> EmptyMap]

\* self.http.headers['User-Agent'] = self.config.ua_string(user_agent)
ClientHeaders == "User-Agent" :> "app TPAW/0.0.1 Python/3"

\* self.http.proxies: set from the config when it names a proxy
ProxiesOf(cfg) ==
    (IF cfg.http_proxy # None THEN "http" :> cfg.http_proxy ELSE EmptyMap)
    @@ (IF cfg.https_proxy # None THEN "https" :> cfg.https_proxy
        ELSE EmptyMap)

\* AuthenticatedTT.__init__: self.params = {"access_token": ...}
InitialParams(cfg) == "access_token" :> cfg.access_token

InitClient ==
    /\ RLIdle
    /\ p_args = NoArgs
    /\ prepared = <<>>
    /\ cfg_src = ClientSources
    /\ config = ConfigOf(ClientSources)
    /\ c_handler \in {"DefaultHandler", "custom"}
    /\ c_params = InitialParams(ConfigOf(ClientSources))
    /\ c_cookies = EmptyMap
    /\ c_pc = "ready"
    /\ c_call = NoCall
    /\ c_dispatch = NoDispatch
    /\ c_attempts = 0
    /\ c_outcome = NoOutcome
    /\ c_inner = Pending
    /\ c_result = Pending
    /\ c_ncalls = 0

\* a public call may start when none is in progress on the client
CanCall == c_pc = "ready" /\ c_ncalls < MaxClientCalls

\* the call ends before _request is entered: the lookup raised
FailLookup(call, exc) ==
    /\ c_call' = call
    /\ c_dispatch' = NoDispatch
    /\ c_attempts' = 0
    /\ c_outcome' = NoOutcome
    /\ c_inner' = Pending
    /\ c_result' = Raised(exc, 0)
    /\ c_pc' = "done"
    /\ c_ncalls' = c_ncalls + 1
    /\ UNCHANGED <<c_handler, c_params, c_cookies>>

\* _request up to the call of self.handler.request: timeout, then
\* build_key_items (_prepare_request and the _rate_delay argument).
\* `shared` tells which argument is the client's own self.params dict,
\* which _prepare_request may update in place.
EnterRequest(call, params, data, method, shared) ==
    LET r == PrepareRequest([url |-> call.url, params |-> params,
                             data |-> data, auth |-> NoneV,
                             files |-> NoneV, method |-> method,
                             headers |-> ClientHeaders,
                             cookies |-> c_cookies,
                             use_oauth |-> FALSE])
    IN  /\ c_call' = call
        /\ c_dispatch' = [request |-> r.request,
                          proxies |-> ProxiesOf(config),
                          timeout |-> config.timeout,
                          rate_delay |-> IntOf(config.api_request_delay)]
        /\ c_params' = CASE shared = "data" -> r.data_obj.items
                          [] shared = "params" -> params.items
                          [] OTHER -> c_params
        /\ c_attempts' = 0
        /\ c_outcome' = NoOutcome
        /\ c_inner' = Pending
        /\ c_result' = Pending
        /\ c_pc' = "dispatch"
        /\ c_ncalls' = c_ncalls + 1
        /\ UNCHANGED <<c_handler, c_cookies>>

\* a caller resolves an endpoint name and calls _request, request or
\* request_json with the URL
DirectCall(api, name, via, data, retry) ==
    /\ CanCall
    /\ LET found == IF via = "getitem" THEN GetItem(config, name)
                    ELSE DocumentStoreUrl(config, name)
           call == [api |-> api, name |-> name, via |-> via,
                    url |-> found.url, retry_on_error |-> retry]
       IN  IF found.raised # "" THEN FailLookup(call, found.raised)
           ELSE EnterRequest(call, NoneV, data, NoneV, "none")
    /\ UNCHANGED <<rlvars, prepvars, cfgvars>>

\* the facade methods that go through self.params: the endpoint, whether
\* the URL takes the identifier, the argument that carries self.params,
\* and the HTTP method
Facade ==
    [list_orders |-> [fmt |-> FALSE, arg |-> "params", method |-> "GET"],
     create_order |-> [fmt |-> FALSE, arg |-> "data", method |-> "POST"],
     update_order |-> [fmt |-> TRUE, arg |-> "params", method |-> "PATCH"],
     show_order |-> [fmt |-> TRUE, arg |-> "params", method |-> "GET"],
     request_order |-> [fmt |-> TRUE, arg |-> "params", method |-> "PATCH"],
     rate_order |-> [fmt |-> TRUE, arg |-> "data", method |-> "POST"],
     list_documents |-> [fmt |-> TRUE, arg |-> "params", method |-> "GET"],
     add_document |-> [fmt |-> TRUE, arg |-> "data", method |-> "POST"],
     list_quotes |-> [fmt |-> TRUE, arg |-> "params", method |-> "GET"],
     list_invoices |-> [fmt |-> TRUE, arg |-> "params", method |-> "GET"]]

\* the fields a facade method puts into self.params with update(); a is
\* the caller's arguments, every other optional argument left at its
\* default
FieldsOf(op, a) ==
    CASE op = "list_orders" ->
            [page |-> a.page, per_page |-> "20", state |-> None,
             team_identifier |-> None]
      [] op = "create_order" ->
            [name |-> a.name, reference |-> None, commment |-> None,
             coupon_code |-> None, desired_delivery_date |-> None,
             service_level |-> None, cost_center_identifier |-> None]
      [] op = "update_order" ->
            [identifier |-> a.identifier, reference |-> None,
             name |-> a.name, cost_center_identifier |-> None]
      [] op \in {"show_order", "request_order", "rate_order"} ->
            [identifier |-> a.identifier]
      [] op = "add_document" ->
            [identifier |-> a.identifier, document_store_id |-> "ds1",
             document_token |-> "dtok", locale_code |-> "de",
             target_locale_codes |-> "en", name |-> a.name]
      [] OTHER -> EmptyMap

\* the arguments callers pass to the facade methods
FacadeArgs == [identifier : {"o1", "o2"}, page : {"1"},
               name : {None, "Doc1"}]

\* one facade method: url = self.config[...] (formatted with the
\* identifier); params = self.params; params.update({...});
\* return self.request_json(url, params=params or data=data, method=...)
FacadeCall(op, a) ==
    /\ CanCall
    /\ LET f == Facade[op]
           found == GetItem(config, op)
           url == IF f.fmt THEN Format(found.url, a.identifier)
                  ELSE found.url
           call == [api |-> op, name |-> op, via |-> "getitem",
                    url |-> url, retry_on_error |-> FALSE]
           obj == DictV(MapUpdate(c_params, FieldsOf(op, a)))
       IN  IF found.raised # "" THEN FailLookup(call, found.raised)
           ELSE IF f.arg = "params"
           THEN EnterRequest(call, obj, NoneV, StrV(f.method), "params")
           ELSE EnterRequest(call, NoneV, obj, StrV(f.method), "data")
    /\ UNCHANGED <<rlvars, prepvars, cfgvars>>

\* get_locales: url = self.config['get_locales'];
\* get_content(url): params = params or {};
\* self.request_json(url, method=None, params=params)
GetLocales ==
    /\ CanCall
    /\ LET found == GetItem(config, "get_locales")
           call == [api |-> "get_locales", name |-> "get_locales",
                    via |-> "getitem", url |-> found.url,
                    retry_on_error |-> FALSE]
       IN  IF found.raised # "" THEN FailLookup(call, found.raised)
           ELSE EnterRequest(call, DictV(EmptyMap), NoneV, NoneV, "none")
    /\ UNCHANGED <<rlvars, prepvars, cfgvars>>

\* the rest of _request and of the public method, once self.handler.request
\* has returned or raised `outcome`
Finish(outcome) ==
    /\ c_attempts' = c_attempts + 1
    /\ c_outcome' = outcome
    /\ c_cookies' = IF outcome.kind = "response"
                    THEN MapUpdate(c_cookies, outcome.cookies)
                    ELSE c_cookies
    /\ c_inner' = InnerOf(outcome)
    /\ c_result' = ResultOf(c_call.api, InnerOf(outcome))
    /\ c_pc' = "done"
    /\ UNCHANGED <<c_handler, c_params, c_call, c_dispatch, c_ncalls>>
    /\ UNCHANGED <<rlvars, prepvars, cfgvars>>

\* the public method hands its result (or its exception) to the caller,
\* and its locals are gone
Leave ==
    /\ c_pc = "done"
    /\ c_pc' = "ready"
    /\ c_call' = NoCall
    /\ c_dispatch' = NoDispatch
    /\ c_attempts' = 0
    /\ c_outcome' = NoOutcome
    /\ c_inner' = Pending
    /\ c_result' = Pending
    /\ UNCHANGED <<c_handler, c_params, c_cookies, c_ncalls>>
    /\ UNCHANGED <<rlvars, prepvars, cfgvars>>

StatusChoices == {200, 403, 404, 503}
BodyChoices == {BodyOrders, BodyBare, BodyArray, BodyHtml, BodyAmp,
                BodyNumeric}
CookieChoices == {EmptyMap, "sid" :> "s1"}

\* self.handler.request returns a response: DefaultHandler.request
\* returns whatever self.http.send returns, whatever its status code
HandlerReturns(status, text, cookies) ==
    /\ c_pc = "dispatch"
    /\ Finish([kind |-> "response", exc |-> "", status |-> status,
               text |-> text, cookies |-> cookies])

\* the HTTPException classes with the status codes a handler may raise
\* them for
HTTPErrorChoices == {<<"HTTPException", 502>>, <<"HTTPException", 503>>,
                     <<"HTTPException", 504>>, <<"HTTPException", 500>>,
                     <<"Forbidden", 403>>, <<"NotFound", 404>>}

\* self.handler.request raises an errors.HTTPException: DefaultHandler
\* never does, a handler passed to BaseTT(handler=...) may
HandlerRaisesHTTP(exc, status) ==
    /\ c_pc = "dispatch"
    /\ c_handler = "custom"
    /\ Finish([kind |-> "http_exception", exc |-> exc, status |-> status,
               text |-> <<>>, cookies |-> EmptyMap])

\* self.handler.request raises a transport exception of requests
HandlerRaisesTransport ==
    /\ c_pc = "dispatch"
    /\ Finish([kind |-> "transport", exc |-> "ConnectionError",
               status |-> 0, text |-> <<>>, cookies |-> EmptyMap])

\* the endpoint names callers look up, and the accessor they use
LookupChoices == {<<"list_orders", "getitem">>,
                  <<"upload_document", "document_store_url">>,
                  <<"no_such_endpoint", "getitem">>,
                  <<"no_such_endpoint", "document_store_url">>}

NextClient ==
    \/ \E api \in {"_request", "request", "request_json"},
          ep \in LookupChoices,
          data \in {NoneV, DictV("name" :> "Doc1")},
          retry \in BOOLEAN :
            DirectCall(api, ep[1], ep[2], data, retry)
    \/ \E op \in DOMAIN Facade, a \in FacadeArgs : FacadeCall(op, a)
    \/ GetLocales
    \/ \E st \in StatusChoices, text \in BodyChoices,
          cookies \in CookieChoices :
            HandlerReturns(st, text, cookies)
    \/ \E e \in HTTPErrorChoices : HandlerRaisesHTTP(e[1], e[2])
    \/ HandlerRaisesTransport
    \/ Leave

SpecClient == InitClient /\ [][NextClient]_vars

-----------------------------------------------------------------------------
(* Claims about the request builder *)

\* the calls of _prepare_request that built a descriptor
Built == {i \in 1..Len(prepared) : prepared[i].raised = ""}

\* body data or files are present: given, and not empty
Present(v) == v.kind # "None" /\ (v.kind = "dict" => DOMAIN v.items # {})
                              /\ (v.kind = "str" => v.text # "")

\* C6: with no explicit method the descriptor's method is POST when body
\* data or files are present and GET otherwise; an explicit method is used
\* unchanged.
C6_MethodInference ==
    \A i \in Built :
        LET g == prepared[i].given
            r == prepared[i].request
        IN  IF g.method.kind = "None"
            THEN r.method = IF Present(g.data) \/ Present(g.files)
                            THEN "POST" ELSE "GET"
            ELSE r.method = g.method.text

\* C6 witness: a descriptor built with no explicit method and no body data
\* but with files, whose method was inferred as POST.
C6_Witness ==
    \E i \in Built :
        /\ prepared[i].given.method.kind = "None"
        /\ prepared[i].given.data.kind = "None"
        /\ prepared[i].given.files.kind = "dict"
        /\ prepared[i].request.method = "POST"

\* C7: for every non-GET descriptor: the sentinel body becomes an empty
\* mapping (to which the api_type rule then applies); a mapping body with
\* no auth contains api_type=json unless api_type was already present, and
\* api_type is not injected when auth is supplied; a non-mapping body, an
\* absent one included, gets the header Content-Type: application/json
\* unless a Content-Type header is already set.
C7_NonGetBody ==
    \A i \in Built :
        LET g == prepared[i].given
            r == prepared[i].request
            start == IF g.data.kind = "True" THEN EmptyMap ELSE g.data.items
        IN  r.method # "GET" =>
              /\ g.data.kind \in {"True", "dict"} =>
                    /\ r.data.kind = "dict"
                    /\ r.headers = g.headers
                    /\ \A k \in DOMAIN start :
                          k \in DOMAIN r.data.items
                          /\ r.data.items[k] = start[k]
                    /\ IF g.auth.kind = "None"
                       THEN /\ DOMAIN r.data.items
                                  = DOMAIN start \cup {"api_type"}
                            /\ "api_type" \notin DOMAIN start
                                  => r.data.items["api_type"] = "json"
                       ELSE DOMAIN r.data.items = DOMAIN start
              /\ g.data.kind \notin {"True", "dict"} =>
                    /\ r.data = g.data
                    /\ DOMAIN r.headers
                          = DOMAIN g.headers \cup {"Content-Type"}
                    /\ \A k \in DOMAIN g.headers :
                          r.headers[k] = g.headers[k]
                    /\ "Content-Type" \notin DOMAIN g.headers
                          => r.headers["Content-Type"] = "application/json"

\* C7 witness: a non-GET descriptor built from the sentinel body with no
\* auth, whose body is the mapping holding api_type=json alone.
C7_Witness ==
    \E i \in Built :
        /\ prepared[i].given.data.kind = "True"
        /\ prepared[i].given.auth.kind = "None"
        /\ prepared[i].request.method # "GET"
        /\ prepared[i].request.data = DictV("api_type" :> "json")

-----------------------------------------------------------------------------
(* Claims about the configuration *)

InitCfg ==
    /\ RLIdle
    /\ p_args = NoArgs
    /\ prepared = <<>>
    /\ cfg_src \in [site : {None, "staging"}, file : FileChoices,
                     env : EnvChoices, kwargs : KwargChoices]
    /\ config = NoConfig
    /\ ClientIdle

NextCfg == ConfigInit

SpecCfg == InitCfg /\ [][NextCfg]_vars

\* the value a source gives: a non-empty string
Given(v) == v # None /\ v # ""

\* what the three sources say about one proxy setting
FromKwargs(key) == MapGet(cfg_src.kwargs, key)
FromEnv(var) == MapGet(cfg_src.env, var)
FromFile(key) ==
    MapGet(cfg_src.file[Or(cfg_src.site, "toptranslation")], key)

\* the precedence file < environment < explicit override, for one setting
ProxyPrecedence(resolved, key, var) ==
    /\ Given(FromKwargs(key)) => resolved = FromKwargs(key)
    /\ (key \notin DOMAIN cfg_src.kwargs /\ Given(FromEnv(var)))
          => resolved = FromEnv(var)
    /\ (key \notin DOMAIN cfg_src.kwargs /\ var \notin DOMAIN cfg_src.env)
          => resolved = Or(FromFile(key), None)

\* C8: the http and https proxy settings resolve to the explicit override
\* if given, otherwise to the proxy environment variable if set, otherwise
\* to the value in the named site's section of the configuration file.
C8_ProxyPrecedence ==
    config # NoConfig =>
        /\ ProxyPrecedence(config.http_proxy, "http_proxy", "http_prox")
        /\ ProxyPrecedence(config.https_proxy, "https_proxy", "https_prox")

-----------------------------------------------------------------------------
(* Claims about the request pipeline *)

\* C3: when a public request method is called with retry_on_error=True
\* and the request fails (here: with a retryable status code, raised or
\* returned), the request is dispatched again, for up to 3 attempts in
\* total; so a call that ends on such a failure has made 2 or 3 dispatches.
C3_RetryOnError ==
    (/\ c_pc = "done"
     /\ c_call.api \in {"_request", "request", "request_json"}
     /\ c_call.retry_on_error
     /\ c_outcome.kind \in {"response", "http_exception"}
     /\ c_outcome.status \in {502, 503, 504})
        => c_attempts \in 2..3

\* C4: when dispatch raises an HTTPException, _request swallows it and
\* returns no result if the status code is 502, 503 or 504, and re-raises
\* the same exception for every other status code.
C4_HTTPExceptionHandling ==
    (c_pc = "done" /\ c_outcome.kind = "http_exception") =>
        IF c_outcome.status \in {502, 503, 504}
        THEN c_inner = Returned(NoValue)
        ELSE c_inner = Raised(c_outcome.exc, c_outcome.status)

\* C4 witness: the handler raised an HTTPException carrying 503 and
\* _request returned None.
C4_Witness ==
    /\ c_pc = "done"
    /\ c_outcome.kind = "http_exception"
    /\ c_outcome.status = 503
    /\ c_inner.kind = "returned"
    /\ c_inner.value.type = "None"

\* C5: for every response the dispatcher returns whose status code is an
\* HTTP failure outside {502, 503, 504}, request and request_json raise an
\* HTTPException-class error carrying that response instead of returning
\* or decoding its body.
C5_FailureStatusRaises ==
    (/\ c_pc = "done"
     /\ c_call.api \in {"request", "request_json"}
     /\ c_outcome.kind = "response"
     /\ c_outcome.status >= 400
     /\ c_outcome.status \notin {502, 503, 504})
        => /\ c_result.kind = "raised"
           /\ IsA(c_result.exc, "HTTPException")
           /\ c_result.status = c_outcome.status

\* C9: list_orders() yields the decoded items found under the root field
\* `data` of the response, in response order.
C9_ListOrdersYieldsItems ==
    LET j == JsonLoads(c_outcome.text)
    IN  (/\ c_pc = "done"
         /\ c_call.api = "list_orders"
         /\ c_outcome.kind = "response"
         /\ c_outcome.status = 200
         /\ Matches(c_outcome.text, 1) = <<>>
         /\ j.kind = "object"
         /\ "data" \in DOMAIN j.fields)
            => c_result = Returned(ItemsValue(j.fields["data"]))

\* C10: looking up an endpoint name that is not in the endpoint table,
\* with config[name] or document_store_url(name), fails with a
\* ClientException-class error, before any request is built or dispatched.
C10_UnknownEndpointIsClientException ==
    (c_pc = "done" /\ c_call.name \notin DOMAIN API_PATHS) =>
        /\ c_result.kind = "raised"
        /\ IsA(c_result.exc, "ClientException")
        /\ c_dispatch = NoDispatch
        /\ c_attempts = 0

-----------------------------------------------------------------------------
(* Claims about the response decoder *)

\* the character an entity denotes: a named one by the entity table, a
\* numeric one by its code point
EntityChar(group) ==
    CASE group = <<"amp">> -> "&"
      [] group = <<"lt">> -> "<"
      [] group = <<"gt">> -> ">"
      [] group = <<"quot">> -> "\""
      [] group = <<"#65">> -> "A"
      [] OTHER -> "?"

\* the text with every entity from piece i on replaced by the character it
\* denotes and every other piece left as it is
RECURSIVE Unescaped(_, _)
Unescaped(text, i) ==
    IF i > Len(text) THEN <<>>
    ELSE LET ends == {j \in (i + 2)..Len(text) :
                         /\ text[j] = ";"
                         /\ \A k \in (i + 1)..(j - 1) : text[k] # ";"}
         IN  IF text[i] = "&" /\ ends # {}
             THEN LET j == CHOOSE j \in ends : TRUE
                  IN  <<EntityChar(SubSeq(text, i + 1, j - 1))>>
                          \o Unescaped(text, j + 1)
             ELSE <<text[i]>> \o Unescaped(text, i + 1)

\* C11: for every response body text, _request returns the text with each
\* entity &name; (named such as &amp;, numeric such as &#65;) replaced by
\* the exact character it denotes and all other characters unchanged,
\* before any JSON parsing.
C11_DecodeEntities ==
    (c_pc = "done" /\ c_outcome.kind = "response") =>
        c_inner = Returned(TextValue(Unescaped(c_outcome.text, 1)))

-----------------------------------------------------------------------------
(* Claims about repeated request construction *)

\* C12: two calls of _prepare_request on the same session with the same
\* argument objects (the first call possibly having added api_type to the
\* data mapping) both raise the same error or yield two descriptors with
\* the same method, the same URL and the same set of headers.
C12_PrepareIdempotent ==
    Len(prepared) >= 2 =>
        /\ prepared[1].raised = prepared[2].raised
        /\ prepared[1].request.method = prepared[2].request.method
        /\ prepared[1].request.url = prepared[2].request.url
        /\ prepared[1].request.headers = prepared[2].request.headers

\* C12 witness: the first call built a descriptor and added api_type to the
\* caller's data mapping, and the second call built one from the changed
\* mapping.
C12_Witness ==
    /\ Len(prepared) = 2
    /\ prepared[1].raised = ""
    /\ prepared[2].raised = ""
    /\ IsDict(prepared[1].given.data)
    /\ "api_type" \notin DOMAIN prepared[1].given.data.items
    /\ "api_type" \in DOMAIN prepared[2].given.data.items

-----------------------------------------------------------------------------
(* Claims about the default parameters of an authenticated client *)

\* the names of the fields the facade method op adds itself
OwnFields(op) == DOMAIN FieldsOf(op, CHOOSE a \in FacadeArgs : TRUE)

\* the names of the parameters and of the body fields of the request a
\* call handed to the dispatcher
SentFields ==
    (IF IsDict(c_dispatch.request.params)
     THEN DOMAIN c_dispatch.request.params.items ELSE {})
    \cup (IF IsDict(c_dispatch.request.data)
          THEN DOMAIN c_dispatch.request.data.items ELSE {})

\* C13: after any sequence of facade calls on one authenticated client, the
\* client's default parameter set is still exactly {access_token}; hence
\* the params/data a facade call sends hold only the access token, the
\* call's own fields and the injected api_type, never fields left over from
\* earlier calls.
C13_DefaultParamsStayClean ==
    /\ c_params = InitialParams(config)
    /\ (c_pc \in {"dispatch", "done"} /\ c_call.api \in DOMAIN Facade
            /\ c_dispatch # NoDispatch)
          => SentFields \subseteq
                 {"access_token", "api_type"} \cup OwnFields(c_call.api)

-----------------------------------------------------------------------------
(* Claims about progress through the rate limiter *)

\* the threads outside DefaultHandler.request
Outside == {t \in Threads : pc[t] \in {"idle", "returned", "raised"}}

\* thread t holds the global admission mutex or the per-domain mutex
HoldsMutex(t) ==
    \/ rl_lock = t
    \/ 1 \in DOMAIN last_call /\ last_call[1].lock = t

\* C14: if every network call eventually returns or raises and a free
\* mutex is eventually given to a waiting thread, every thread that enters
\* the rate-limited DefaultHandler.request eventually leaves it (so the
\* global admission mutex and the per-domain mutex never deadlock), and a
\* thread that has left, normally or through a transport exception, holds
\* neither mutex.
C14_EveryCallLeaves ==
    /\ [](\A t \in Outside : ~HoldsMutex(t))
    /\ \A t \in Threads : (pc[t] = "L35") ~> (t \in Outside)

\* C14 witness: one thread left through a transport exception, and after
\* it another thread was admitted and is inside the network call while
\* holding the domain mutex.
C14_Witness ==
    \E t, u \in Threads :
        /\ pc[t] = "raised"
        /\ pc[u] = "L46"
        /\ last_call[1].lock = u
        /\ Len(admitted) >= 2

-----------------------------------------------------------------------------
(* Claims about when the rate limiter suspends a call *)

\* the threads suspended in time.sleep
Suspended == {t \in Threads : pc[t] = "L44"}

\* C15: a call is suspended by the rate limiter only if an earlier call of
\* the domain was admitted less than the configured interval before it (so
\* its wake-up time is no later than that admission plus the interval); in
\* particular the first call of a process, which finds a freshly created
\* domain record, is never suspended, whatever the clock reads.
C15_SuspendedOnlyAfterRecentCall ==
    \A t \in Suspended :
        /\ admitted # <<>>
        /\ wake[t] <= admitted[Len(admitted)].at
                          + api_request_delay[client[t]]

====
